---- MODULE Spec2Model ----
(***************************************************************************)
(* Model of the error/bottom algebra (package adt, errors file) and of the *)
(* syntax-tree lowering pass (package cue, ast.go).                        *)
(*                                                                         *)
(* Pointers are references into a heap: a *Bottom is an index into `heap`  *)
(* (0 is the nil pointer).  An adt.Value (an interface) is a record        *)
(* [k, n]: the nil interface, a non-Bottom value, or a *Bottom.            *)
(***************************************************************************)
EXTENDS Integers, Sequences, FiniteSets, TLC

VARIABLES
    heap,      \* the Bottom objects allocated so far, indexed by reference
    call,      \* the last CombineErrors call: arguments, result, heap before
    vertex,    \* the Vertex: [Value, ChildErrors]
    x0,        \* the Value the vertex was created with
    hist,      \* the child errors passed to AddChildError, in call order
    probe,     \* the last isIncomplete call: argument and result
    th,        \* per goroutine: position inside AddChildError and its locals
    overlapped,\* TRUE once two AddChildError calls were in progress together
    file,      \* the syntax tree handed to insertFile
    built      \* the outcome of insertFile: lowered graph and diagnostics

vars == <<heap, call, vertex, x0, hist, probe, th, overlapped, file, built>>

-----------------------------------------------------------------------------
(* Bounds *)

PoolPerCode == 2      \* Bottoms per error code offered to CombineErrors
MaxCombines == 1      \* CombineErrors calls in one behaviour
ChildrenPerCode == 1  \* child Bottoms per error code offered to AddChildError
MaxCalls == 2         \* serialized AddChildError calls in one behaviour
MaxConcCalls == 2     \* AddChildError calls started by the goroutines
MaxOperands == 3      \* operands of a chain of | expressions
MaxClauses == 3       \* clauses of a comprehension
MaxFields == 3        \* declarations of a record
MaxElts == 3          \* elements of an interpolation
MaxRefs == 2          \* references to one alias

-----------------------------------------------------------------------------
(* ErrorCode *)

EvalError == 0
UserError == 1
NotExistError == 2
StructuralCycleError == 3
IncompleteError == 4
CycleError == 5

ErrorCode == EvalError..CycleError
NumCodes == CycleError + 1

-----------------------------------------------------------------------------
(* Values and Bottoms *)

Nil == [k |-> "nil", n |-> 0]
Val(i) == [k |-> "val", n |-> i]
Bot(r) == [k |-> "bot", n |-> r]

\* a *Bottom converted to the Value interface (a nil pointer asserts to nil)
AsValue(r) == IF r = 0 THEN Nil ELSE Bot(r)

\* x.(*Bottom): the pointer, or nil when x holds no Bottom
AsBottom(x) == IF x.k = "bot" THEN x.n ELSE 0

Bottom(src, err, code, hasRecursive, childError, value) ==
    [Src |-> src, Err |-> err, Code |-> code, HasRecursive |-> hasRecursive,
     ChildError |-> childError, Value |-> value]

\* errors.Append: the list of the causes of a followed by those of b
errorsAppend(a, b) == a \o b

IsIncompleteMut(h, b) ==
    IF b = 0 THEN FALSE ELSE h[b].Code = IncompleteError

\* (*Bottom).IsIncomplete
IsIncomplete(h, b) ==
    IF b = 0 THEN FALSE
    ELSE h[b].Code = IncompleteError \/ h[b].Code = CycleError

\* isIncomplete(v *Vertex); vp is the nil vertex or a vertex record
NilVertex == [isNil |-> TRUE, Value |-> Nil, ChildErrors |-> 0]
VertexPtr(vx) == [isNil |-> FALSE, Value |-> vx.Value, ChildErrors |-> vx.ChildErrors]

isIncompleteMut(h, vp) ==
    IF vp.isNil THEN TRUE
    ELSE IF vp.Value.k = "bot" THEN TRUE
    ELSE FALSE

isIncomplete(h, vp) ==
    IF vp.isNil THEN TRUE
    ELSE IF vp.Value.k = "bot" THEN IsIncomplete(h, AsBottom(vp.Value))
    ELSE FALSE

CombineErrorsMut(h, src, x, y) ==
    LET a0 == AsBottom(x)
        b0 == AsBottom(y)
    IN  IF a0 # 0 /\ b0 # 0
        THEN [res |-> Len(h) + 1,
              heap |-> Append(h, Bottom(src, errorsAppend(h[a0].Err, h[b0].Err),
                                        h[a0].Code, FALSE, FALSE, Nil))]
        ELSE IF a0 # 0 THEN [res |-> a0, heap |-> h]
        ELSE IF b0 # 0 THEN [res |-> b0, heap |-> h]
        ELSE [res |-> 0, heap |-> h]

\* CombineErrors(src, x, y): the resulting *Bottom and the heap after the call
CombineErrors(h, src, x, y) ==
    LET a0 == AsBottom(x)
        b0 == AsBottom(y)
    IN  IF a0 # 0 /\ b0 # 0
        THEN LET swap == h[a0].Code # h[b0].Code /\ h[a0].Code > h[b0].Code
                 a == IF swap THEN b0 ELSE a0
                 b == IF swap THEN a0 ELSE b0
             IN  IF h[a].Code # h[b].Code /\ h[b].Code >= IncompleteError
                 THEN [res |-> a, heap |-> h]
                 ELSE [res |-> Len(h) + 1,
                       heap |-> Append(h, Bottom(src,
                                    errorsAppend(h[a].Err, h[b].Err),
                                    h[a].Code, FALSE, FALSE, Nil))]
        ELSE IF a0 # 0 THEN [res |-> a0, heap |-> h]
        ELSE IF b0 # 0 THEN [res |-> b0, heap |-> h]
        ELSE [res |-> 0, heap |-> h]

-----------------------------------------------------------------------------
(* The pool of child Bottoms: PoolPerCode Bottoms per code, each with its  *)
(* own one-cause message (the cause is named by the Bottom's reference).   *)

NPool == NumCodes * PoolPerCode
Pool == 1..NPool
Children == 1..(NumCodes * ChildrenPerCode)   \* the child errors a vertex is handed
ConcChildren == 1..NumCodes    \* one child error of each code, for the goroutines
PoolHeap ==
    [p \in Pool |-> Bottom(p, <<p>>, (p - 1) % NumCodes, FALSE, FALSE, Nil)]

\* the vertex's own error, for a vertex that starts out as a Bottom
OwnRef == NPool + 1
OwnHeap(code) == Append(PoolHeap, Bottom(0, <<OwnRef>>, code, FALSE, FALSE, Nil))

NoCall == [n |-> 0, src |-> 0, x |-> Nil, y |-> Nil, res |-> 0, before |-> <<>>]
NoProbe == [done |-> FALSE, isNil |-> FALSE, val |-> Nil, code |-> -1, res |-> FALSE]
Idle == [pc |-> "idle", recursive |-> 0, tmp |-> 0, x |-> Nil]
NoFile == [t |-> "none"]
NotBuilt == [done |-> FALSE]

-----------------------------------------------------------------------------
(* CombineErrors as a standalone utility: SpecCombine applies it to every  *)
(* pair of Values over the pool, earlier results included.                 *)

SrcNode == NPool + 1                 \* the syntax node passed as src
Srcs == {0, SrcNode}                 \* a nil src, as AddChildError passes, or a node
ValuesOf(h) == {Nil} \cup {Val(1)} \cup {Bot(r) : r \in 1..Len(h)}

InitCombine ==
    /\ heap = PoolHeap
    /\ call = NoCall
    /\ vertex = [Value |-> Nil, ChildErrors |-> 0]
    /\ x0 = Nil
    /\ hist = <<>>
    /\ probe = NoProbe
    /\ th = <<>>
    /\ overlapped = FALSE
    /\ file = NoFile
    /\ built = NotBuilt

CallCombineErrors(src, x, y) ==
    /\ call.n < MaxCombines
    /\ LET c == CombineErrors(heap, src, x, y)
       IN  /\ heap' = c.heap
           /\ call' = [n |-> call.n + 1, src |-> src, x |-> x, y |-> y,
                       res |-> c.res, before |-> heap]
    /\ UNCHANGED <<vertex, x0, hist, probe, th, overlapped, file, built>>

NextCombine ==
    \E src \in Srcs : \E x \in ValuesOf(heap) : \E y \in ValuesOf(heap) :
        CallCombineErrors(src, x, y)

SpecCombine == InitCombine /\ [][NextCombine]_vars

-----------------------------------------------------------------------------
(* Vertex.AddChildError, one call at a time.                               *)

NewChildBottomMut(recursive, x, h) ==
    Bottom(0, h[recursive].Err, h[recursive].Code, TRUE, FALSE, Nil)

\* the Bottom literal of AddChildError for a vertex that was no error yet
NewChildBottom(recursive, x, h) ==
    Bottom(0, h[recursive].Err, h[recursive].Code, TRUE, TRUE, x)

LowerCodeMut(code, recursiveCode) == recursiveCode

\* if err.Code > recursive.Code { err.Code = recursive.Code }
LowerCode(code, recursiveCode) ==
    IF code > recursiveCode THEN recursiveCode ELSE code

AddChildErrorMut(h, vx, recursive) ==
    LET c == CombineErrors(h, 0, AsValue(vx.ChildErrors), Bot(recursive))
        v1 == [vx EXCEPT !.ChildErrors = c.res]
        h1 == c.heap
        x == v1.Value
        err == AsBottom(x)
    IN  IF err = 0
        THEN [v |-> [v1 EXCEPT !.Value = Bot(Len(h1) + 1)],
              heap |-> Append(h1, NewChildBottom(recursive, x, h1))]
        ELSE [v |-> [v1 EXCEPT !.Value = Bot(err)],
              heap |-> [h1 EXCEPT ![err].HasRecursive = TRUE,
                                  ![err].Code = LowerCode(@, h1[recursive].Code)]]

\* (v *Vertex).AddChildError(recursive): the vertex and the heap after it
AddChildError(h, vx, recursive) ==
    LET c == CombineErrors(h, 0, AsValue(vx.ChildErrors), Bot(recursive))
        v1 == [vx EXCEPT !.ChildErrors = c.res]
        h1 == c.heap
    IN  IF IsIncomplete(h1, recursive)
        THEN [v |-> v1, heap |-> h1]
        ELSE LET x == v1.Value
                 err == AsBottom(x)
             IN  IF err = 0
                 THEN [v |-> [v1 EXCEPT !.Value = Bot(Len(h1) + 1)],
                       heap |-> Append(h1, NewChildBottom(recursive, x, h1))]
                 ELSE [v |-> [v1 EXCEPT !.Value = Bot(err)],
                       heap |-> [h1 EXCEPT ![err].HasRecursive = TRUE,
                                           ![err].Code = LowerCode(@, h1[recursive].Code)]]

\* the vertex is created holding no value, a non-Bottom value, or its own error
InitVertex ==
    /\ \/ /\ x0 \in {Nil} \cup {Val(1)}
          /\ heap = PoolHeap
       \/ /\ x0 = Bot(OwnRef)
          /\ \E code \in ErrorCode : heap = OwnHeap(code)
    /\ vertex = [Value |-> x0, ChildErrors |-> 0]
    /\ hist = <<>>
    /\ probe = NoProbe
    /\ call = NoCall
    /\ th = <<>>
    /\ overlapped = FALSE
    /\ file = NoFile
    /\ built = NotBuilt

CallAddChildError(recursive) ==
    /\ Len(hist) < MaxCalls
    /\ LET r == AddChildError(heap, vertex, recursive)
       IN  /\ vertex' = r.v
           /\ heap' = r.heap
    /\ hist' = Append(hist, recursive)
    /\ probe' = NoProbe
    /\ UNCHANGED <<call, x0, th, overlapped, file, built>>

\* isIncomplete(nil) or isIncomplete(v), with what v held at the call
CallIsIncomplete(nilArg) ==
    /\ ~probe.done
    /\ LET vp == IF nilArg THEN NilVertex ELSE VertexPtr(vertex)
       IN  probe' = [done |-> TRUE, isNil |-> nilArg, val |-> vp.Value,
                     code |-> IF vp.Value.k = "bot" THEN heap[vp.Value.n].Code ELSE -1,
                     res |-> isIncomplete(heap, vp)]
    /\ UNCHANGED <<heap, call, vertex, x0, hist, th, overlapped, file, built>>

NextVertex ==
    \/ \E recursive \in Children : CallAddChildError(recursive)
    \/ \E nilArg \in BOOLEAN : CallIsIncomplete(nilArg)

SpecVertex == InitVertex /\ [][NextVertex]_vars

-----------------------------------------------------------------------------
(* Vertex.AddChildError called from several goroutines with no lock.  A    *)
(* step is one access to the vertex (v.ChildErrors, v.Value, or a field of *)
(* the Bottom v.Value points to) together with the local computation that  *)
(* follows it; steps of different calls interleave freely.                 *)

Threads == 1..2

InitConc ==
    /\ \/ /\ x0 \in {Nil} \cup {Val(1)}
          /\ heap = PoolHeap
       \/ /\ x0 = Bot(OwnRef)
          /\ \E code \in ErrorCode : heap = OwnHeap(code)
    /\ vertex = [Value |-> x0, ChildErrors |-> 0]
    /\ hist = <<>>
    /\ th = [t \in Threads |-> Idle]
    /\ overlapped = FALSE
    /\ probe = NoProbe
    /\ call = NoCall
    /\ file = NoFile
    /\ built = NotBuilt

\* entry, and the read of v.ChildErrors that evaluates the argument of line 147
Enter(t, recursive) ==
    /\ th[t].pc = "idle"
    /\ Len(hist) < MaxConcCalls
    /\ th' = [th EXCEPT ![t] = [pc |-> "l147", recursive |-> recursive,
                                tmp |-> vertex.ChildErrors, x |-> Nil]]
    /\ hist' = Append(hist, recursive)
    /\ overlapped' = (overlapped \/ \E u \in Threads \ {t} : th[u].pc # "idle")
    /\ UNCHANGED <<heap, call, vertex, x0, probe, file, built>>

\* v.ChildErrors = CombineErrors(nil, <read>, recursive); if incomplete, return
Line147(t) ==
    /\ th[t].pc = "l147"
    /\ LET c == CombineErrors(heap, 0, AsValue(th[t].tmp), Bot(th[t].recursive))
       IN  /\ heap' = c.heap
           /\ vertex' = [vertex EXCEPT !.ChildErrors = c.res]
           /\ th' = [th EXCEPT ![t] =
                        IF IsIncomplete(c.heap, th[t].recursive)
                        THEN Idle ELSE [@ EXCEPT !.pc = "l151"]]
    /\ UNCHANGED <<call, x0, hist, probe, overlapped, file, built>>

\* x := v.Value
Line151(t) ==
    /\ th[t].pc = "l151"
    /\ th' = [th EXCEPT ![t] = [@ EXCEPT !.pc = "l153", !.x = vertex.Value]]
    /\ UNCHANGED <<heap, call, vertex, x0, hist, probe, overlapped, file, built>>

\* err == nil: v.Value = &Bottom{...}; return
Line154(t) ==
    /\ th[t].pc = "l153"
    /\ AsBottom(th[t].x) = 0
    /\ heap' = Append(heap, NewChildBottom(th[t].recursive, th[t].x, heap))
    /\ vertex' = [vertex EXCEPT !.Value = Bot(Len(heap) + 1)]
    /\ th' = [th EXCEPT ![t] = Idle]
    /\ UNCHANGED <<call, x0, hist, probe, overlapped, file, built>>

\* err != nil: err.HasRecursive = true
Line164(t) ==
    /\ th[t].pc = "l153"
    /\ AsBottom(th[t].x) # 0
    /\ heap' = [heap EXCEPT ![AsBottom(th[t].x)].HasRecursive = TRUE]
    /\ th' = [th EXCEPT ![t] = [@ EXCEPT !.pc = "l165"]]
    /\ UNCHANGED <<call, vertex, x0, hist, probe, overlapped, file, built>>

\* the read of err.Code and its comparison; tmp keeps the code to be stored
Line165(t) ==
    /\ th[t].pc = "l165"
    /\ LET err == AsBottom(th[t].x)
           c == LowerCode(heap[err].Code, heap[th[t].recursive].Code)
       IN  th' = [th EXCEPT ![t] =
                    IF c # heap[err].Code
                    THEN [@ EXCEPT !.pc = "l166", !.tmp = c]
                    ELSE [@ EXCEPT !.pc = "l169"]]
    /\ UNCHANGED <<heap, call, vertex, x0, hist, probe, overlapped, file, built>>

\* err.Code = recursive.Code
Line166(t) ==
    /\ th[t].pc = "l166"
    /\ heap' = [heap EXCEPT ![AsBottom(th[t].x)].Code = th[t].tmp]
    /\ th' = [th EXCEPT ![t] = [@ EXCEPT !.pc = "l169"]]
    /\ UNCHANGED <<call, vertex, x0, hist, probe, overlapped, file, built>>

\* v.Value = err
Line169(t) ==
    /\ th[t].pc = "l169"
    /\ vertex' = [vertex EXCEPT !.Value = th[t].x]
    /\ th' = [th EXCEPT ![t] = Idle]
    /\ UNCHANGED <<heap, call, x0, hist, probe, overlapped, file, built>>

NextConc ==
    \E t \in Threads :
        \/ \E recursive \in ConcChildren : Enter(t, recursive)
        \/ Line147(t)
        \/ Line151(t)
        \/ Line154(t)
        \/ Line164(t)
        \/ Line165(t)
        \/ Line166(t)
        \/ Line169(t)

SpecConc == InitConc /\ [][NextConc]_vars

-----------------------------------------------------------------------------
(* Syntax trees (package ast).  A node is a record tagged by its type in   *)
(* field t.  A node's identity is its position in the file: the sequence   *)
(* of child indices from the root; a cross-reference (Ident.Node,          *)
(* Ident.Scope) carries the identity of the node it points to, and for an  *)
(* alias also the aliased expression.  Child indices: Decls/Elts i -> i;   *)
(* X, Label, Ident, Key, Condition, Expr of EmitDecl/ListComprehension,    *)
(* Field of ComprehensionDecl -> 1; Y, Value, Expr of Alias -> 2;          *)
(* Source -> 3; clause i -> 1 + i.                                         *)
(* A literal's text is a sequence of characters; DQ and SQ are the two     *)
(* quote characters, LP is the interpolation opener and RP its closer.     *)

NoNode == [t |-> "nil"]
BasicLit(val) == [t |-> "BasicLit", Value |-> val]
Ident(name, node, scope) == [t |-> "Ident", Name |-> name, Node |-> node, Scope |-> scope]
UnaryExpr(op, x) == [t |-> "UnaryExpr", Op |-> op, X |-> x]
BinaryExpr(op, x, y) == [t |-> "BinaryExpr", Op |-> op, X |-> x, Y |-> y]
ParenExpr(x) == [t |-> "ParenExpr", X |-> x]
Interpolation(elts) == [t |-> "Interpolation", Elts |-> elts]
StructLit(elts) == [t |-> "StructLit", Elts |-> elts]
Field(label, value, optional, attrsOk) ==
    [t |-> "Field", Label |-> label, Value |-> value, Optional |-> optional,
     AttrsOk |-> attrsOk]
TemplateLabel(ident) == [t |-> "TemplateLabel", Ident |-> ident]
Alias(ident, expr) == [t |-> "Alias", Ident |-> ident, Expr |-> expr]
EmitDecl(expr) == [t |-> "EmitDecl", Expr |-> expr]
ComprehensionDecl(field, clauses) ==
    [t |-> "ComprehensionDecl", Field |-> field, Clauses |-> clauses]
ListComprehension(expr, clauses) ==
    [t |-> "ListComprehension", Expr |-> expr, Clauses |-> clauses]
ForClause(key, value, source) ==
    [t |-> "ForClause", Key |-> key, Value |-> value, Source |-> source]
IfClause(condition) == [t |-> "IfClause", Condition |-> condition]
File(decls) == [t |-> "File", Decls |-> decls]

\* what an Ident's Node or Scope points to
NodeRef(t, id) == [t |-> t, id |-> id]
AliasRef(id, expr) == [t |-> "Alias", id |-> id, Expr |-> expr]

-----------------------------------------------------------------------------
(* The lowered graph.  Every value carries src, the identity of the syntax *)
(* node it was lowered from.  structLit, lambdaExpr and yield are objects  *)
(* of the build's heap st.objs (they are filled in after they are handed   *)
(* out); a Ref is a pointer to one.                                        *)

NilV == [t |-> "nil"]
Ref(i) == [t |-> "ref", ref |-> i]
R(val, st) == [value |-> val, st |-> st]

\* mkErr: the bottom value of a failed node
mkErr(p, format, args) == [t |-> "bottom", src |-> p, format |-> format, args |-> args]

isBottom(val) == val.t = "bottom"

\* newStruct(newNode(n))
newStruct(p) ==
    [t |-> "structLit", src |-> p, arcs |-> <<>>, comprehensions |-> <<>>,
     template |-> NilV, emit |-> NilV]

\* &lambdaExpr{newExpr(n), params, nil}
newLambda(p, params) == [t |-> "lambdaExpr", src |-> p, params |-> params, value |-> NilV]

\* &yield{baseValue: newExpr(n)}
newYield(p) == [t |-> "yield", src |-> p, key |-> NilV, value |-> NilV, opt |-> FALSE]

\* an allocation: the object is added to the build's heap
alloc(st, obj) == [st EXCEPT !.objs = Append(@, obj)]

\* &astVisitor{astState: v.astState, object: obj, parent: parent}
allocVisitor(st, object, parent) ==
    [st EXCEPT !.vis = Append(@, [object |-> object, parent |-> parent, sel |-> ""])]

\* v.sel = sel
setSel(st, v, sel) == IF st.panic THEN st ELSE [st EXCEPT !.vis[v].sel = sel]

\* the label interner: the same name always gets the same feature; no name
\* of the model gets feature 0
LabelNames == <<"a", "b", "c", "r", "x", "y", "k", "_", "T", "X", "foo", "env">>
label(name) == CHOOSE i \in 1..Len(LabelNames) : LabelNames[i] = name

RECURSIVE appendPath(_, _)
\* (v *astVisitor).appendPath(nil)
appendPath(st, v) ==
    IF v = 0 THEN <<>>
    ELSE appendPath(st, st.vis[v].parent)
            \o (IF st.vis[v].sel # "" THEN <<st.vis[v].sel>> ELSE <<>>)

\* (v *astVisitor).errf: one entry in the build's diagnostics, and the bottom
errf(v, st, p, format, args) ==
    R(mkErr(p, format, args),
      IF st.panic THEN st
      ELSE [st EXCEPT !.errors = Append(@, [path |-> appendPath(st, v), n |-> p,
                                            Format |-> format, Args |-> args])])

\* (s *astState).mapScope(n): the scope and the state after the call
mapScope(st, p) ==
    IF st.panic THEN R(NilV, st)
    ELSE IF p \in DOMAIN st.astMap THEN R(st.astMap[p], st)
    ELSE LET st1 == alloc(st, newStruct(p))
             m == Ref(Len(st1.objs))
         IN  R(m, [st1 EXCEPT !.astMap = [q \in DOMAIN @ \cup {p} |->
                                            IF q = p THEN m ELSE @[q]]])

\* (s *astState).setScope(n, v)
setScope(st, p, val) ==
    IF st.panic THEN st
    ELSE IF p \in DOMAIN st.astMap /\ st.astMap[p] # val
    THEN [st EXCEPT !.panic = TRUE]
    ELSE [st EXCEPT !.astMap = [q \in DOMAIN @ \cup {p} |->
                                    IF q = p THEN val ELSE @[q]]]

\* the arcs of resolveRoot, the scope insertFile resolves free names in
ResolveRootArcs == {"env"}

\* (v *astVisitor).resolve(n), outside a selector
resolve(n, p) ==
    IF n.Name \in ResolveRootArcs
    THEN [t |-> "selectorExpr", src |-> p,
          x |-> [t |-> "nodeRef", src |-> p, node |-> "resolveRoot"],
          feature |-> label(n.Name)]
    ELSE NilV

BasicTypeNames == {"string", "bytes", "bool", "int", "float", "number", "duration"}
BuiltinNames == {"len", "and", "or"}
PredefinedRanges == {"int8", "uint8"}

\* litParser.parse
parse(n, p) == [t |-> "basicLit", src |-> p, lit |-> n.Value]

\* parseString(ctx, l, info, s)
parseString(p, info, s) == [t |-> "stringLit", src |-> p, quote |-> info, str |-> s]

Quotes == {"DQ", "SQ"}

\* literal.ParseQuotes(start, end): the opening quote of start must close end
ParseQuotes(start, end) ==
    IF /\ Len(start) > 0
       /\ Len(end) > 0
       /\ start[1] \in Quotes
       /\ end[Len(end)] = start[1]
    THEN [info |-> start[1], prefixLen |-> 1, err |-> FALSE]
    ELSE [info |-> "", prefixLen |-> 0, err |-> TRUE]

\* strings.HasPrefix
HasPrefix(s, prefix) ==
    Len(prefix) <= Len(s) /\ SubSeq(s, 1, Len(prefix)) = prefix

RECURSIVE walk(_, _, _, _)
RECURSIVE addDisjunctionElem(_, _, _, _, _, _)
RECURSIVE interpolationParts(_, _, _, _, _, _, _, _)

\* case *ast.Ident
walkIdent(v, n, p, st) ==
    IF n.Node.t = "nil"
    THEN LET r == resolve(n, p)
         IN  IF r.t # "nil" THEN R(r, st)
             ELSE IF n.Name = "_" THEN R([t |-> "top", src |-> p], st)
             ELSE IF n.Name \in BasicTypeNames
                  THEN R([t |-> "basicType", src |-> p, k |-> n.Name], st)
             ELSE IF n.Name \in BuiltinNames
                  THEN R([t |-> "builtin", name |-> n.Name], st)
             ELSE IF n.Name \in PredefinedRanges
                  THEN R([t |-> "predefinedRange", name |-> n.Name], st)
             ELSE errf(v, st, p, "reference %q not found", <<n.Name>>)
    ELSE IF n.Node.t = "Alias"
    THEN walk(v, n.Node.Expr, n.Node.id \o <<2>>, st)
    ELSE IF n.Scope.t # "nil"
    THEN LET m == mapScope(st, n.Scope.id)
         IN  R([t |-> "selectorExpr", src |-> p,
                x |-> [t |-> "nodeRef", src |-> p, node |-> m.value],
                feature |-> label(n.Name)], m.st)
    ELSE LET m == mapScope(st, n.Node.id)
         IN  R([t |-> "nodeRef", src |-> p, node |-> m.value], m.st)

\* the loop of case *ast.Interpolation, from element i (0-based) on
interpolationParts(v, n, p, st, i, lit, prefix, prefixLen) ==
    IF i >= Len(n.Elts) THEN R(lit, st)
    ELSE LET l == n.Elts[i + 1]
         IN  IF l.t # "BasicLit"
             THEN errf(v, st, p, "invalid interpolation", <<>>)
             ELSE IF ~HasPrefix(l.Value, prefix)
             THEN errf(v, st, p \o <<i + 1>>, "invalid interpolation: unmatched ')'", <<>>)
             ELSE LET s == SubSeq(l.Value, prefixLen + 1, Len(l.Value))
                      x == parseString(p \o <<i + 1>>, lit.quote, s)
                      lit1 == [lit EXCEPT !.parts = Append(@, x)]
                  IN  IF i + 1 < Len(n.Elts)
                      THEN LET w == walk(v, n.Elts[i + 2], p \o <<i + 2>>, st)
                           IN  interpolationParts(v, n, p, w.st, i + 2,
                                   [lit1 EXCEPT !.parts = Append(@, w.value)],
                                   <<"RP">>, 1)
                      ELSE interpolationParts(v, n, p, st, i + 2, lit1, <<"RP">>, 1)

\* case *ast.Interpolation
walkInterpolation(v, n, p, st) ==
    IF Len(n.Elts) = 0 THEN errf(v, st, p, "invalid interpolation", <<>>)
    ELSE LET first == n.Elts[1]
             last == n.Elts[Len(n.Elts)]
         IN  IF first.t # "BasicLit" \/ last.t # "BasicLit"
             THEN errf(v, st, p, "invalid interpolation", <<>>)
             ELSE IF Len(n.Elts) = 1 THEN walk(v, n.Elts[1], p \o <<1>>, st)
             ELSE LET q == ParseQuotes(first.Value, last.Value)
                  IN  IF q.err
                      THEN errf(v, st, p, "invalid interpolation: %v", <<"quotes">>)
                      ELSE interpolationParts(v, n, p, st, 0,
                              [t |-> "interpolation", src |-> p, k |-> "string",
                               quote |-> q.info, parts |-> <<>>],
                              <<>>, q.prefixLen)

UnaryOps == {"NOT", "ADD", "SUB"}
BoundOps == {"GEQ", "GTR", "LSS", "LEQ", "NEQ", "MAT", "NMAT"}

\* case *ast.UnaryExpr
walkUnaryExpr(v, n, p, st) ==
    IF n.Op \in UnaryOps
    THEN LET w == walk(v, n.X, p \o <<1>>, st)
         IN  R([t |-> "unaryExpr", src |-> p, op |-> n.Op, x |-> w.value], w.st)
    ELSE IF n.Op \in BoundOps
    THEN LET w == walk(v, n.X, p \o <<1>>, st)
         IN  R([t |-> "bound", src |-> p, op |-> n.Op, x |-> w.value], w.st)
    ELSE IF n.Op = "MUL"
    THEN errf(v, st, p, "preference mark not allowed at this position", <<>>)
    ELSE errf(v, st, p, "unsupported unary operator %q", <<n.Op>>)

addDisjunctionElemMut(v, d, n, p, mark, st) ==
    IF n.t = "BinaryExpr" /\ n.Op = "OR"
    THEN LET r1 == addDisjunctionElem(v, d, n.Y, p \o <<2>>, mark, st)
         IN  addDisjunctionElem(v, r1.d, n.X, p \o <<1>>, mark, r1.st)
    ELSE LET star == n.t = "UnaryExpr" /\ n.Op = "MUL"
             w == IF star THEN walk(v, n.X, p \o <<1>>, st) ELSE walk(v, n, p, st)
         IN  [d |-> [d EXCEPT !.values = Append(@, [val |-> w.value, mark |-> star])],
              st |-> w.st]

\* (v *astVisitor).addDisjunctionElem(d, n, mark): d and the state afterwards
addDisjunctionElem(v, d, n, p, mark, st) ==
    IF n.t = "BinaryExpr" /\ n.Op = "OR"
    THEN LET r1 == addDisjunctionElem(v, d, n.X, p \o <<1>>, mark, st)
         IN  addDisjunctionElem(v, r1.d, n.Y, p \o <<2>>, mark, r1.st)
    ELSE LET unary == n.t = "UnaryExpr"
             star == unary /\ n.Op = "MUL"
             mark1 == IF star THEN TRUE ELSE mark
             d1 == IF unary THEN [d EXCEPT !.hasDefaults = TRUE] ELSE d
             w == IF star THEN walk(v, n.X, p \o <<1>>, st) ELSE walk(v, n, p, st)
         IN  [d |-> [d1 EXCEPT !.values = Append(@, [val |-> w.value, mark |-> mark1])],
              st |-> w.st]

\* case *ast.BinaryExpr
walkBinaryExpr(v, n, p, st) ==
    IF n.Op = "OR"
    THEN LET d == [t |-> "disjunction", src |-> p, values |-> <<>>, hasDefaults |-> FALSE]
             r1 == addDisjunctionElem(v, d, n.X, p \o <<1>>, FALSE, st)
             r2 == addDisjunctionElem(v, r1.d, n.Y, p \o <<2>>, FALSE, r1.st)
         IN  R(r2.d, r2.st)
    ELSE LET x == walk(v, n.X, p \o <<1>>, st)
             y == walk(v, n.Y, p \o <<2>>, x.st)
         IN  R([t |-> "binaryExpr", src |-> p, op |-> n.Op, left |-> x.value,
                right |-> y.value], y.st)

\* internal.DropOptional, the hack that drops optional fields; off
DropOptional == FALSE

\* ast.LabelName(x): an identifier, or a quoted one-character string literal
LabelName(x) ==
    IF x.t = "Ident" THEN [name |-> x.Name, ok |-> TRUE]
    ELSE IF Len(x.Value) = 3 /\ x.Value[1] = "DQ" /\ x.Value[3] = "DQ"
    THEN [name |-> x.Value[2], ok |-> TRUE]
    ELSE [name |-> "", ok |-> FALSE]

\* (v *astVisitor).nodeLabel(x)
nodeLabel(x) ==
    IF LabelName(x).ok THEN [f |-> label(LabelName(x).name), ok |-> TRUE]
    ELSE [f |-> 0, ok |-> FALSE]

\* createAttrs(ctx, newNode(n), n.Attrs): the attributes, or a bottom
createAttrs(n, p) ==
    IF n.AttrsOk THEN [attrs |-> "attrs", err |-> NilV]
    ELSE [attrs |-> "", err |-> mkErr(p, "invalid attribute", <<>>)]

\* mkBin(ctx, token.NoPos, opUnify, left, right)
mkBinUnify(left, right) == [t |-> "binaryExpr", op |-> "UNIFY", left |-> left, right |-> right]

\* (x *structLit).insertValue: unified into the arc of that label, else added
insertValue(st, obj, f, opt, val, attrs) ==
    IF st.panic THEN st
    ELSE LET arcs == st.objs[obj].arcs
             same == {i \in 1..Len(arcs) : arcs[i].feature = f}
         IN  IF same # {}
             THEN LET i == CHOOSE j \in same : TRUE
                  IN  [st EXCEPT !.objs[obj].arcs[i].v = mkBinUnify(@, val),
                                 !.objs[obj].arcs[i].optional = @ /\ opt]
             ELSE [st EXCEPT !.objs[obj].arcs =
                      Append(@, [feature |-> f, v |-> val, optional |-> opt])]

\* a write to a field of an object of the build
setField(st, ref, fld, val) ==
    IF st.panic THEN st ELSE [st EXCEPT !.objs[ref] = [@ EXCEPT ![fld] = val]]

\* v.object.comprehensions = append(v.object.comprehensions, fc)
addComprehension(st, v, fc) ==
    IF st.panic THEN st
    ELSE [st EXCEPT !.objs[st.vis[v].object].comprehensions = Append(@, fc)]

RECURSIVE wrapForScopes(_, _, _, _)
RECURSIVE wrapLayers(_, _, _, _, _, _)
RECURSIVE structElts(_, _, _, _, _)
RECURSIVE fileDecls(_, _, _, _, _, _)

\* the first loop of wrapClauses, from clause i on: one lambda per for clause
wrapForScopes(cs, p, st, i) ==
    IF i > Len(cs) \/ st.panic THEN st
    ELSE IF cs[i].t = "ForClause"
    THEN LET st1 == alloc(st, newLambda(p \o <<1 + i, 3>>, <<>>))
         IN  wrapForScopes(cs, p, setScope(st1, p \o <<1 + i>>, Ref(Len(st1.objs))), i + 1)
    ELSE wrapForScopes(cs, p, st, i + 1)

wrapLayersMut(v, y, cs, p, st, i) ==
    IF i = 0 \/ st.panic THEN R(y, st)
    ELSE IF cs[i].t = "ForClause"
    THEN wrapLayers(v, y, cs, p, st, i - 1)
    ELSE LET w == walk(v, cs[i].Condition, p \o <<1 + i, 1>>, st)
         IN  wrapLayers(v, [t |-> "guard", src |-> p \o <<1 + i, 1>>,
                            condition |-> w.value, value |-> y],
                        cs, p, w.st, i - 1)

\* the second loop of wrapClauses, from clause i down to the first
wrapLayers(v, y, cs, p, st, i) ==
    IF i = 0 \/ st.panic THEN R(y, st)
    ELSE LET n == cs[i]
             cp == p \o <<1 + i>>
         IN  IF n.t = "ForClause"
             THEN LET m == mapScope(st, cp)
                      fn == m.value.ref
                      key == IF n.Key.t # "nil" THEN n.Key.Name ELSE "_"
                      st1 == setField(m.st, fn, "value", y)
                      st2 == setField(st1, fn, "params",
                                <<[feature |-> label(key),
                                   typ |-> [t |-> "basicType", src |-> cp \o <<1>>,
                                            k |-> "string|int"]],
                                  [feature |-> label(n.Value.Name),
                                   typ |-> [t |-> "top"]]>>)
                      w == walk(v, n.Source, cp \o <<3>>, st2)
                  IN  wrapLayers(v, [t |-> "feed", src |-> cp \o <<3>>,
                                     source |-> w.value, fn |-> Ref(fn)],
                                 cs, p, w.st, i - 1)
             ELSE LET w == walk(v, n.Condition, cp \o <<1>>, st)
                  IN  wrapLayers(v, [t |-> "guard", src |-> cp \o <<1>>,
                                     condition |-> w.value, value |-> y],
                                 cs, p, w.st, i - 1)

\* wrapClauses(v, y, clauses); a call that returns is recorded in st.wraps
wrapClauses(v, y, cs, p, st) ==
    LET st1 == wrapForScopes(cs, p, st, 1)
        r == wrapLayers(v, y, cs, p, st1, Len(cs))
    IN  IF r.st.panic THEN R(NilV, r.st)
        ELSE R(r.value, [r.st EXCEPT !.wraps = Append(@,
                    [at |-> p, clauses |-> cs, yield |-> y, res |-> r.value])])

\* case *ast.ListComprehension
walkListComprehension(v, n, p, st) ==
    LET st1 == alloc(st, newYield(p \o <<1>>))
        yielder == Len(st1.objs)
        c == wrapClauses(v, Ref(yielder), n.Clauses, p, st1)
        w == walk(v, n.Expr, p \o <<1>>, c.st)
    IN  R([t |-> "listComprehension", src |-> p, clauses |-> c.value],
          setField(w.st, yielder, "value", w.value))

\* case *ast.ComprehensionDecl
walkComprehensionDecl(v, n, p, st) ==
    LET st1 == alloc(st, newYield(p \o <<1, 2>>))
        yielder == Len(st1.objs)
        c == wrapClauses(v, Ref(yielder), n.Clauses, p, st1)
        fc == [t |-> "fieldComprehension", src |-> p, clauses |-> c.value,
               isTemplate |-> FALSE]
        x == n.Field.Label
    IN  IF x.t = "Interpolation"
        THEN LET k == walk(v, x, p \o <<1, 1>>, setSel(c.st, v, "?"))
                 w == walk(v, n.Field.Value, p \o <<1, 2>>,
                           setField(k.st, yielder, "key", k.value))
             IN  R(NilV, addComprehension(setField(w.st, yielder, "value", w.value), v, fc))
        ELSE IF x.t = "TemplateLabel"
        THEN LET sig == <<[feature |-> label(x.Ident.Name),
                           typ |-> [t |-> "basicType", src |-> p \o <<1, 1>>,
                                    k |-> "string"]]>>
                 st2 == alloc(setSel(c.st, v, "*"), newLambda(p \o <<1, 2>>, sig))
                 template == Len(st2.objs)
                 st3 == setScope(st2, p \o <<1>>, Ref(template))
                 w == walk(v, n.Field.Value, p \o <<1, 2>>, st3)
                 st4 == setField(w.st, template, "value", w.value)
                 st5 == setField(st4, yielder, "value", Ref(template))
             IN  R(NilV, addComprehension(st5, v, [fc EXCEPT !.isTemplate = TRUE]))
        ELSE LET ln == LabelName(x)
             IN  IF ~ln.ok
                 THEN errf(v, c.st, p \o <<1, 1>>, "invalid field name: %v", <<"label">>)
                 ELSE IF ln.name # ""
                 THEN LET st2 == setField(setSel(c.st, v, ln.name), yielder, "key",
                                    [t |-> "stringLit", src |-> p \o <<1, 1>>,
                                     str |-> ln.name])
                          w == walk(v, n.Field.Value, p \o <<1, 2>>, st2)
                      IN  R(NilV, addComprehension(
                                    setField(w.st, yielder, "value", w.value), v, fc))
                 ELSE R(NilV, addComprehension(setSel(c.st, v, ln.name), v, fc))

\* case *ast.Field
walkField(v, n, p, st) ==
    LET opt == n.Optional
        x == n.Label
    IN  IF x.t = "Interpolation"
        THEN LET st1 == alloc(setSel(st, v, "?"), newYield(p \o <<1>>))
                 yielder == Len(st1.objs)
                 fc == [t |-> "fieldComprehension", src |-> p,
                        clauses |-> Ref(yielder), isTemplate |-> FALSE]
                 k == walk(v, x, p \o <<1>>, st1)
                 w == walk(v, n.Value, p \o <<2>>, setField(k.st, yielder, "key", k.value))
                 st2 == setField(setField(w.st, yielder, "value", w.value),
                                 yielder, "opt", opt)
             IN  R(NilV, addComprehension(st2, v, fc))
        ELSE IF x.t = "TemplateLabel"
        THEN LET sig == <<[feature |-> label(x.Ident.Name),
                           typ |-> [t |-> "basicType", src |-> p \o <<1>>,
                                    k |-> "string"]]>>
                 st1 == alloc(setSel(st, v, "*"), newLambda(p, sig))
                 template == Len(st1.objs)
                 st2 == setScope(st1, p, Ref(template))
                 w == walk(v, n.Value, p \o <<2>>, st2)
                 st3 == setField(w.st, template, "value", w.value)
                 obj == st.vis[v].object
             IN  IF st3.panic THEN R(NilV, st3)
                 ELSE IF st3.objs[obj].template.t = "nil"
                 THEN R(NilV, setField(st3, obj, "template", Ref(template)))
                 ELSE R(NilV, setField(st3, obj, "template",
                                mkBinUnify(st3.objs[obj].template, Ref(template))))
        ELSE IF DropOptional /\ opt THEN R(NilV, st)
        ELSE LET st1 == setSel(st, v, LabelName(x).name)
                 a == createAttrs(n, p)
                 nl == nodeLabel(x)
             IN  IF a.err.t # "nil" THEN R(a.err, st1)
                 ELSE IF ~nl.ok
                 THEN errf(v, st1, p \o <<1>>, "invalid field name: %v", <<"label">>)
                 ELSE IF nl.f # 0
                 THEN LET w == walk(v, n.Value, p \o <<2>>, st1)
                      IN  R(NilV, insertValue(w.st, st.vis[v].object, nl.f, opt,
                                              w.value, a.attrs))
                 ELSE R(NilV, st1)

structEltsMut(v1, n, p, st, i) ==
    IF i > Len(n.Elts) \/ st.panic THEN R(NilV, st)
    ELSE LET e == n.Elts[i]
             w == walk(v1, e, p \o <<i>>, st)
         IN  IF e.t = "EmitDecl"
             THEN errf(v1, st, p \o <<i>>, "emitting values is only allowed at top level", <<>>)
             ELSE IF isBottom(w.value) THEN R(w.value, w.st)
             ELSE structElts(v1, n, p, w.st, i + 1)

\* the loop of case *ast.StructLit, from element i on: the bottom it returns
\* early with, or nil
structElts(v1, n, p, st, i) ==
    IF i > Len(n.Elts) \/ st.panic THEN R(NilV, st)
    ELSE LET e == n.Elts[i]
         IN  IF e.t = "EmitDecl"
             THEN errf(v1, st, p \o <<i>>, "emitting values is only allowed at top level", <<>>)
             ELSE IF e.t \in {"Field", "Alias", "ComprehensionDecl"}
             THEN structElts(v1, n, p, walk(v1, e, p \o <<i>>, st).st, i + 1)
             ELSE structElts(v1, n, p, st, i + 1)

\* case *ast.StructLit
walkStructLit(v, n, p, st) ==
    LET m == mapScope(st, p)
        st1 == allocVisitor(m.st, m.value.ref, v)
        v1 == Len(st1.vis)
        r == structElts(v1, n, p, st1, 1)
    IN  IF r.value.t # "nil" THEN r ELSE R(m.value, r.st)

\* the loop of case *ast.File, from declaration i on
fileDecls(v, v1, n, p, st, i) ==
    IF i > Len(n.Decls) \/ st.panic THEN st
    ELSE LET e == n.Decls[i]
             obj == st.vis[v1].object
         IN  IF e.t = "EmitDecl"
             THEN LET w == walk(v1, e.Expr, p \o <<i, 1>>, st)
                  IN  fileDecls(v, v1, n, p,
                         IF st.objs[obj].emit.t = "nil"
                         THEN setField(w.st, obj, "emit", w.value)
                         ELSE setField(w.st, obj, "emit",
                                       mkBinUnify(st.objs[obj].emit, w.value)),
                         i + 1)
             ELSE fileDecls(v, v1, n, p, walk(v1, e, p \o <<i>>, st).st, i + 1)

\* case *ast.File
walkFile(v, n, p, st) ==
    LET obj == st.vis[v].object
        st1 == allocVisitor(st, obj, 0)
        v1 == Len(st1.vis)
    IN  R(Ref(obj), fileDecls(v, v1, n, p, st1, 1))

\* (v *astVisitor).walk(astNode): the value and the build state afterwards.
\* After the panic of setScope nothing more is done.
walk(v, n, p, st) ==
    IF st.panic THEN R(NilV, st)
    ELSE IF n.t = "File" THEN walkFile(v, n, p, st)
    ELSE IF n.t = "StructLit" THEN walkStructLit(v, n, p, st)
    ELSE IF n.t = "ComprehensionDecl" THEN walkComprehensionDecl(v, n, p, st)
    ELSE IF n.t = "Field" THEN walkField(v, n, p, st)
    ELSE IF n.t = "Alias" THEN R(NilV, st)
    ELSE IF n.t = "ListComprehension" THEN walkListComprehension(v, n, p, st)
    ELSE IF n.t = "Ident" THEN walkIdent(v, n, p, st)
    ELSE IF n.t = "BasicLit" THEN R(parse(n, p), st)
    ELSE IF n.t = "Interpolation" THEN walkInterpolation(v, n, p, st)
    ELSE IF n.t = "ParenExpr" THEN walk(v, n.X, p \o <<1>>, st)
    ELSE IF n.t = "UnaryExpr" THEN walkUnaryExpr(v, n, p, st)
    ELSE IF n.t = "BinaryExpr" THEN walkBinaryExpr(v, n, p, st)
    ELSE R(NilV, st)

\* newVisitor: the build state with the root struct and the root visitor
newVisitor ==
    [objs |-> <<newStruct(<<>>)>>,
     vis |-> <<[object |-> 1, parent |-> 0, sel |-> ""]>>,
     astMap |-> [q \in {} |-> NilV],
     errors |-> <<>>,
     wraps |-> <<>>,
     panic |-> FALSE]

\* (inst *Instance).insertFile(f): the walk's value and the final build state
insertFile(f) ==
    LET st0 == [newVisitor EXCEPT !.astMap = [q \in {<<>>} |-> Ref(1)]]
        result == walk(1, f, <<>>, st0)
    IN  [done |-> TRUE, result |-> result.value, st |-> result.st]

-----------------------------------------------------------------------------
(* The syntax trees handed to insertFile.                                  *)

Lit(c) == BasicLit(<<c>>)
Name(name) == Ident(name, NoNode, NoNode)
Or(x, y) == BinaryExpr("OR", x, y)
Star(x) == UnaryExpr("MUL", x)
PlainField(name, value) == Field(Name(name), value, FALSE, TRUE)

\* the operands of a chain: literals, marked literals, other unary
\* expressions, a parenthesised disjunction, a doubly marked literal
Operands ==
    {Lit("1"), Lit("2"), Lit("3"), Star(Lit("2")),
     UnaryExpr("SUB", Lit("1")), UnaryExpr("GEQ", Lit("1")),
     ParenExpr(Or(Lit("1"), Star(Lit("2")))), Star(Star(Lit("1")))}

\* the shapes of a tree of | expressions over n operands; nl is the number
\* of operands of the left branch
Leaf == [t |-> "leaf"]
RECURSIVE Shapes(_)
Shapes(n) ==
    IF n = 1 THEN {Leaf}
    ELSE UNION {{[t |-> "node", l |-> a, r |-> b, nl |-> i] :
                    a \in Shapes(i), b \in Shapes(n - i)} : i \in 1..(n - 1)}

RECURSIVE Fill(_, _, _)
\* the tree of shape sh over the operands ops[k + 1], ops[k + 2], ...
Fill(sh, ops, k) ==
    IF sh.t = "leaf" THEN ops[k + 1]
    ELSE Or(Fill(sh.l, ops, k), Fill(sh.r, ops, k + sh.nl))

\* a field whose value is a chain of 2..MaxOperands operands: a shape and
\* the operands that fill it
DisjFiles ==
    {File(<<PlainField("a", Fill(c[1], c[2], 0))>>) :
        c \in UNION {Shapes(n) \X [1..n -> Operands] : n \in 2..MaxOperands}}

\* the clauses of a comprehension at `at`; x is the loop variable of clause 1
LoopVar(at) == Ident("x", NodeRef("ForClause", at \o <<2>>), NoNode)
ClauseSet(at) ==
    {ForClause(NoNode, Name("x"), Name("env")),
     ForClause(Name("k"), Name("x"), Lit("1")),
     IfClause(Lit("1")),
     IfClause(BinaryExpr("GTR", LoopVar(at), Lit("1"))),
     IfClause(Name("foo"))}

UsesLoopVar(c) ==
    c.t = "IfClause" /\ c.Condition.t = "BinaryExpr"

\* loop variables are only referred to after a for clause that binds them
ClauseSeqs(at) ==
    {cs \in UNION {[1..n -> ClauseSet(at)] : n \in 0..MaxClauses} :
        (\E i \in 1..Len(cs) : UsesLoopVar(cs[i])) =>
            (cs[1].t = "ForClause" /\ ~UsesLoopVar(cs[1]))}

YieldExpr(at, cs) ==
    IF Len(cs) > 0 /\ cs[1].t = "ForClause" THEN LoopVar(at) ELSE Lit("1")

GoodInterpolation ==
    Interpolation(<<BasicLit(<<"DQ", "a", "LP">>), Name("env"),
                    BasicLit(<<"RP", "b", "DQ">>)>>)
\* the closing quote is not the opening one
BadInterpolation ==
    Interpolation(<<BasicLit(<<"DQ", "a", "LP">>), Name("env"),
                    BasicLit(<<"RP", "b", "SQ">>)>>)

ComprLabels ==
    {Name("y"), BasicLit(<<"1">>), TemplateLabel(Name("T")), GoodInterpolation}

ComprFiles ==
    {File(<<PlainField("a", ListComprehension(YieldExpr(<<1, 2>>, cs), cs))>>) :
        cs \in ClauseSeqs(<<1, 2>>)}
    \cup
    {File(<<ComprehensionDecl(Field(l, YieldExpr(<<1>>, cs), FALSE, TRUE), cs)>>) :
        l \in ComprLabels, cs \in ClauseSeqs(<<1>>)}

\* the declarations of a record: fields that lower, and the ways one fails
DeclSet ==
    {PlainField("a", Lit("1")),
     PlainField("b", Lit("2")),
     Field(Name("a"), Lit("3"), TRUE, TRUE),
     Field(BasicLit(<<"1">>), Lit("1"), FALSE, TRUE),
     PlainField("c", BadInterpolation),
     PlainField("k", Name("foo")),
     Field(Name("x"), Lit("1"), FALSE, FALSE),
     Field(TemplateLabel(Name("T")), Lit("2"), FALSE, TRUE),
     Field(GoodInterpolation, Lit("2"), FALSE, TRUE),
     EmitDecl(Lit("3"))}

RecordFiles ==
    {File(<<PlainField("r", StructLit(ds))>>) :
        ds \in UNION {[1..n -> DeclSet] : n \in 1..MaxFields}}

InterpElts ==
    {BasicLit(<<"DQ", "a", "LP">>), BasicLit(<<"RP", "b", "DQ">>),
     BasicLit(<<"RP", "b", "SQ">>), BasicLit(<<"RP", "LP">>), BasicLit(<<"a", "LP">>),
     BasicLit(<<"DQ", "a", "DQ">>), Name("env")}

InterpFiles ==
    {File(<<PlainField("a", Interpolation(es)), EmitDecl(Lit("1")), EmitDecl(Lit("2"))>>) :
        es \in UNION {[1..n -> InterpElts] : n \in 0..MaxElts}}

\* what an alias may stand for; the alias is declaration 1 of the file
AliasExprs ==
    {Lit("1"),
     Or(Lit("1"), Star(Lit("2"))),
     StructLit(<<PlainField("a", Lit("1"))>>),
     StructLit(<<Field(TemplateLabel(Name("T")), Lit("1"), FALSE, TRUE)>>),
     ListComprehension(Lit("1"), <<ForClause(NoNode, Name("x"), Name("env"))>>),
     ListComprehension(Lit("1"), <<IfClause(Lit("1"))>>)}

\* a reference to field a of the file, by its pre-resolved node and scope
FieldRef == Ident("a", NodeRef("Field", <<2>>), NodeRef("File", <<>>))

AliasFiles ==
    {File(<<Alias(Name("X"), e)>>
          \o [i \in 1..n |-> PlainField(LabelNames[i], Ident("X", AliasRef(<<1>>, e), NoNode))]
          \o <<PlainField("r", d)>>) :
        e \in AliasExprs, n \in 1..MaxRefs,
        d \in {FieldRef, Ident("b", NodeRef("Field", <<3>>), NoNode), Name("_"),
               Name("int"), Name("len"), Name("int8"),
               UnaryExpr("NOT", Lit("1")), UnaryExpr("XOR", Lit("1"))}}

InitAst ==
    /\ \/ file \in DisjFiles
       \/ file \in ComprFiles
       \/ file \in RecordFiles
       \/ file \in InterpFiles
       \/ file \in AliasFiles
    /\ built = NotBuilt
    /\ heap = <<>>
    /\ call = NoCall
    /\ vertex = [Value |-> Nil, ChildErrors |-> 0]
    /\ x0 = Nil
    /\ hist = <<>>
    /\ probe = NoProbe
    /\ th = <<>>
    /\ overlapped = FALSE

InsertFile ==
    /\ ~built.done
    /\ built' = insertFile(file)
    /\ UNCHANGED <<heap, call, vertex, x0, hist, probe, th, overlapped, file>>

NextAst == InsertFile

SpecAst == InitAst /\ [][NextAst]_vars

-----------------------------------------------------------------------------
(* Properties of the error algebra *)

FatalCodes == {EvalError, UserError, NotExistError, StructuralCycleError}
IncompleteCodes == {IncompleteError, CycleError}

BothBottoms == call.n > 0 /\ call.x.k = "bot" /\ call.y.k = "bot"
CodeX == call.before[call.x.n].Code
CodeY == call.before[call.y.n].Code

\* C1: when one operand of CombineErrors is a fatal-class Bottom and the other
\* an incomplete-class Bottom, in either argument order, the result is the
\* fatal operand itself: the same object, no Bottom is allocated and no
\* Bottom is changed, so nothing of the incomplete operand is retained.
C1_FatalWins ==
    BothBottoms =>
        /\ (CodeX \in FatalCodes /\ CodeY \in IncompleteCodes) =>
              (call.res = call.x.n /\ heap = call.before)
        /\ (CodeY \in FatalCodes /\ CodeX \in IncompleteCodes) =>
              (call.res = call.y.n /\ heap = call.before)

\* the incomplete operand comes first and the fatal one second
C1_Witness ==
    /\ BothBottoms
    /\ CodeX = CycleError
    /\ CodeY = StructuralCycleError
    /\ call.res = call.y.n

\* C2: for two Bottoms of equal code, or of different codes the larger of which
\* is fatal-class, CombineErrors returns a new Bottom at src whose Code is the
\* smaller code and whose message is the lower-code operand's causes followed
\* by the other's (x then y for equal codes); both operands stay as they were.
C2_Merge ==
    (BothBottoms /\ (CodeX = CodeY \/ (IF CodeX > CodeY THEN CodeX ELSE CodeY) \in FatalCodes)) =>
        LET lo == IF CodeX <= CodeY THEN call.x.n ELSE call.y.n
            hi == IF CodeX <= CodeY THEN call.y.n ELSE call.x.n
        IN  /\ call.res = Len(call.before) + 1
            /\ Len(heap) = Len(call.before) + 1
            /\ \A r \in 1..Len(call.before) : heap[r] = call.before[r]
            /\ heap[call.res].Src = call.src
            /\ heap[call.res].Code = (IF CodeX <= CodeY THEN CodeX ELSE CodeY)
            /\ heap[call.res].Err = call.before[lo].Err \o call.before[hi].Err

\* two fatal operands, the second more severe: its causes come first
C2_Witness ==
    /\ BothBottoms
    /\ CodeX = StructuralCycleError
    /\ CodeY = UserError
    /\ call.src = SrcNode
    /\ heap[call.res].Code = UserError
    /\ heap[call.res].Err = <<call.y.n, call.x.n>>

ChildCode(i) == heap[hist[i]].Code
FatalCalls == {i \in 1..Len(hist) : ChildCode(i) \in FatalCodes}
MinOf(S) == CHOOSE m \in S : \A n \in S : m <= n

\* C3: on a vertex that did not start as a Bottom, after any sequence of
\* AddChildError calls the Value is a Bottom exactly when some aggregated child
\* error was fatal-class; its Code is then the least code among the fatal-class
\* child errors and HasRecursive is set, whatever the order of the calls.
C3_MinFatalCode ==
    x0.k # "bot" =>
        /\ (vertex.Value.k = "bot") <=> (FatalCalls # {})
        /\ vertex.Value.k = "bot" =>
              /\ heap[vertex.Value.n].Code = MinOf({ChildCode(i) : i \in FatalCalls})
              /\ heap[vertex.Value.n].HasRecursive

\* StructuralCycleError then UserError ends with Code UserError
C3_Witness ==
    /\ x0.k # "bot"
    /\ Len(hist) = 2
    /\ ChildCode(1) = StructuralCycleError
    /\ ChildCode(2) = UserError
    /\ vertex.Value.k = "bot"
    /\ heap[vertex.Value.n].Code = UserError
    /\ heap[vertex.Value.n].HasRecursive

\* C4: an AddChildError call with an incomplete-class error leaves the Value
\* as it was (the same value, and when it is a Bottom every field of that
\* Bottom); ChildErrors becomes CombineErrors(nil, ChildErrors, recursive) and
\* nothing else changes.
C4_IncompleteFrame ==
    [][ (hist' # hist /\ heap[hist'[Len(hist')]].Code \in IncompleteCodes) =>
          LET c == CombineErrors(heap, 0, AsValue(vertex.ChildErrors), Bot(hist'[Len(hist')]))
          IN  /\ vertex'.Value = vertex.Value
              /\ vertex.Value.k = "bot" => heap'[vertex.Value.n] = heap[vertex.Value.n]
              /\ vertex'.ChildErrors = c.res
              /\ heap' = c.heap ]_vars

\* a vertex already failed by a fatal child is handed an incomplete one
C4_Witness ==
    /\ Len(hist) >= 2
    /\ ChildCode(Len(hist)) \in IncompleteCodes
    /\ ChildCode(1) \in FatalCodes
    /\ vertex.Value.k = "bot"
    /\ heap[vertex.Value.n].Code = ChildCode(1)

\* C5: isIncomplete answers true exactly for the nil vertex and for a vertex
\* whose Value is a Bottom of code IncompleteError or CycleError.
C5_IsIncomplete ==
    probe.done =>
        (probe.res <=> (probe.isNil \/ (probe.val.k = "bot" /\ probe.code \in IncompleteCodes)))

\* a vertex failed by a fatal child is asked: the answer is false
C5_Witness ==
    /\ probe.done
    /\ ~probe.isNil
    /\ probe.val.k = "bot"
    /\ probe.code \in FatalCodes
    /\ hist # <<>>
    /\ ~probe.res

\* C9: on a vertex created with a non-Bottom value x0, whenever the Value is
\* a Bottom that Bottom has ChildError set, still holds x0 as its Value, has no
\* source node, and carries the message of the first fatal-class child
\* aggregated; later fatal-class children change only HasRecursive and Code.
C9_FirstFatalKept ==
    (x0.k # "bot" /\ vertex.Value.k = "bot") =>
        /\ FatalCalls # {}
        /\ heap[vertex.Value.n].ChildError
        /\ heap[vertex.Value.n].Value = x0
        /\ heap[vertex.Value.n].Src = 0
        /\ heap[vertex.Value.n].Err = heap[hist[MinOf(FatalCalls)]].Err

\* a second, more severe fatal child lowered the code and kept the message
C9_Witness ==
    /\ x0.k = "val"
    /\ Len(hist) >= 2
    /\ ChildCode(1) = NotExistError
    /\ ChildCode(2) = EvalError
    /\ vertex.Value.k = "bot"
    /\ heap[vertex.Value.n].Code = EvalError
    /\ heap[vertex.Value.n].Err = heap[hist[1]].Err
    /\ heap[vertex.Value.n].Value = x0

AllIdle == \A t \in Threads : th[t].pc = "idle"
Causes(err) == {err[i] : i \in 1..Len(err)}

\* every aggregated child is in the message of ChildErrors, except an
\* incomplete-class child that a more severe error displaced
ReflectsChildErrors ==
    hist # <<>> =>
        /\ vertex.ChildErrors # 0
        /\ \A i \in 1..Len(hist) :
              \/ heap[hist[i]].Err[1] \in Causes(heap[vertex.ChildErrors].Err)
              \/ ChildCode(i) \in IncompleteCodes /\ heap[vertex.ChildErrors].Code < ChildCode(i)

\* the Value's code is at most the code of every fatal-class child
ReflectsValue ==
    IF FatalCalls = {} THEN vertex.Value = x0
    ELSE /\ vertex.Value.k = "bot"
         /\ heap[vertex.Value.n].HasRecursive
         /\ \A i \in FatalCalls : heap[vertex.Value.n].Code <= ChildCode(i)

\* C10: when the AddChildError calls on a vertex ran one at a time, after the
\* last of them ChildErrors and Value reflect every aggregated child error.
\* (That interleaved calls lose a child error is the reachability of
\* C10_Witness.)
C10_SerializedReflects ==
    (AllIdle /\ ~overlapped) => (ReflectsChildErrors /\ ReflectsValue)

\* two calls interleaved: a child error is missing from ChildErrors and the
\* Value's code is not the most severe one
C10_Witness ==
    /\ AllIdle
    /\ overlapped
    /\ Len(hist) = 2
    /\ ~ReflectsChildErrors
    /\ ~ReflectsValue

-----------------------------------------------------------------------------
(* Properties of the lowering pass *)

RECURSIVE Leaves(_, _)
\* the operands of a chain of | expressions with their places, left to right
Leaves(n, p) ==
    IF n.t = "BinaryExpr" /\ n.Op = "OR"
    THEN Leaves(n.X, p \o <<1>>) \o Leaves(n.Y, p \o <<2>>)
    ELSE <<[n |-> n, p |-> p]>>

Starred(n) == n.t = "UnaryExpr" /\ n.Op = "MUL"

RECURSIVE SrcOf(_, _)
\* the node a lowered operand reports as its source: parentheses leave no node
SrcOf(n, p) == IF n.t = "ParenExpr" THEN SrcOf(n.X, p \o <<1>>) ELSE p

\* the file is one field whose value is a chain of | expressions
IsDisjFile ==
    /\ file.Decls[1].t = "Field"
    /\ file.Decls[1].Label.t = "Ident"
    /\ file.Decls[1].Value.t = "BinaryExpr"
    /\ file.Decls[1].Value.Op = "OR"

\* C6: a chain of | expressions is lowered to one disjunction with exactly one
\* branch per operand that is not itself a | expression, in source order; a
\* branch is marked default exactly when the operand was written with *, and
\* its value is lowered from the operand without that prefix.
C6_Flattened ==
    (built.done /\ IsDisjFile) =>
        LET d == built.st.objs[1].arcs[1].v
            ls == Leaves(file.Decls[1].Value, <<1, 2>>)
        IN  /\ d.t = "disjunction"
            /\ Len(d.values) = Len(ls)
            /\ \A i \in 1..Len(ls) :
                  LET star == Starred(ls[i].n)
                      n == IF star THEN ls[i].n.X ELSE ls[i].n
                      np == IF star THEN ls[i].p \o <<1>> ELSE ls[i].p
                  IN  /\ d.values[i].mark = star
                      /\ d.values[i].val.src = SrcOf(n, np)
                      /\ n.t = "BasicLit" =>
                            d.values[i].val = [t |-> "basicLit", src |-> np, lit |-> n.Value]

\* 1 | *2 | 3 gives [(1, false), (2, true), (3, false)]
C6_Witness ==
    /\ built.done
    /\ file = File(<<PlainField("a", Or(Or(Lit("1"), Star(Lit("2"))), Lit("3")))>>)
    /\ LET d == built.st.objs[1].arcs[1].v
       IN  /\ Len(d.values) = 3
           /\ d.values[1].val.lit = <<"1">> /\ ~d.values[1].mark
           /\ d.values[2].val.lit = <<"2">> /\ d.values[2].mark
           /\ d.values[3].val.lit = <<"3">> /\ ~d.values[3].mark

RECURSIVE ChainOK(_, _, _, _, _, _)
\* y is the chain for clauses i..n of cs around the yield: a feed per for
\* clause, whose lambda's body is the rest, a guard per if clause
ChainOK(y, cs, i, at, yield, objs) ==
    IF i > Len(cs) THEN y = yield
    ELSE IF cs[i].t = "ForClause"
    THEN /\ y.t = "feed"
         /\ y.src = at \o <<1 + i, 3>>
         /\ objs[y.fn.ref].t = "lambdaExpr"
         /\ ChainOK(objs[y.fn.ref].value, cs, i + 1, at, yield, objs)
    ELSE /\ y.t = "guard"
         /\ y.src = at \o <<1 + i, 1>>
         /\ ChainOK(y.value, cs, i + 1, at, yield, objs)

\* the comprehension the file consists of, if it is one
TopComprehension ==
    IF file.Decls[1].t = "ComprehensionDecl"
    THEN [is |-> TRUE, at |-> <<1>>, clauses |-> file.Decls[1].Clauses]
    ELSE IF file.Decls[1].t = "Field" /\ file.Decls[1].Value.t = "ListComprehension"
    THEN [is |-> TRUE, at |-> <<1, 2>>, clauses |-> file.Decls[1].Value.Clauses]
    ELSE [is |-> FALSE, at |-> <<>>, clauses |-> <<>>]

\* C7: every call of wrapClauses that returns, returns a chain of exactly one
\* layer per clause, nested in source order around the yield it was given:
\* clause 1 outermost, a feed for a for clause with the next layer as its
\* lambda's body, a guard for an if clause around the next layer.  The
\* comprehension of a file that consists of one is lowered by one such call.
C7_WrapClauses ==
    built.done =>
        /\ \A j \in 1..Len(built.st.wraps) :
              LET w == built.st.wraps[j]
              IN  /\ w.yield.t = "ref"
                  /\ built.st.objs[w.yield.ref].t = "yield"
                  /\ ChainOK(w.res, w.clauses, 1, w.at, w.yield, built.st.objs)
        /\ TopComprehension.is =>
              /\ Len(built.st.wraps) = 1
              /\ built.st.wraps[1].at = TopComprehension.at
              /\ built.st.wraps[1].clauses = TopComprehension.clauses

\* for x in env if x > 1 gives feed(guard(yield))
C7_Witness ==
    /\ built.done
    /\ TopComprehension.is
    /\ Len(TopComprehension.clauses) = 2
    /\ TopComprehension.clauses[1].t = "ForClause"
    /\ TopComprehension.clauses[2].t = "IfClause"
    /\ Len(built.st.wraps) = 1
    /\ LET w == built.st.wraps[1]
       IN  /\ w.res.t = "feed"
           /\ built.st.objs[w.res.fn.ref].value.t = "guard"
           /\ built.st.objs[w.res.fn.ref].value.value = w.yield

\* the file is one field whose value is a record
IsRecordFile ==
    /\ Len(file.Decls) = 1
    /\ file.Decls[1].t = "Field"
    /\ file.Decls[1].Value.t = "StructLit"

RecordDecls == file.Decls[1].Value.Elts
RecordAt == <<1, 2>>

IsPrefix(p, q) == Len(p) <= Len(q) /\ SubSeq(q, 1, Len(p)) = p

\* the diagnostics recorded for nodes at or below p
DiagsUnder(p) ==
    {j \in 1..Len(built.st.errors) : IsPrefix(p, built.st.errors[j].n)}

RECURSIVE Holds(_, _)
\* val is the value lowered from the node at p, alone or unified with others
Holds(val, p) ==
    IF val.t = "binaryExpr" /\ val.op = "UNIFY"
    THEN Holds(val.left, p) \/ Holds(val.right, p)
    ELSE IF val.t \in {"basicLit", "bottom"} THEN val.src = p
    ELSE FALSE

\* field declaration i has an identifier or literal label
OrdinaryField(i) ==
    RecordDecls[i].t = "Field" /\ RecordDecls[i].Label.t \in {"Ident", "BasicLit"}

\* the ways a field declaration fails
LabelFails(i) == OrdinaryField(i) /\ RecordDecls[i].AttrsOk /\ ~LabelName(RecordDecls[i].Label).ok
ValueFails(i) ==
    /\ OrdinaryField(i) /\ RecordDecls[i].AttrsOk /\ LabelName(RecordDecls[i].Label).ok
    /\ RecordDecls[i].Value \in {BadInterpolation, Name("foo")}
Lowers(i) ==
    /\ OrdinaryField(i) /\ RecordDecls[i].AttrsOk /\ LabelName(RecordDecls[i].Label).ok
    /\ RecordDecls[i].Value.t = "BasicLit"

\* no emit declaration, which ends the lowering of a record, precedes i
Reached(i) == \A j \in 1..(i - 1) : RecordDecls[j].t # "EmitDecl"

\* C8: in a record, a field declaration whose label does not resolve leaves
\* one diagnostic and no arc; one whose value is a malformed interpolation or
\* an unresolved reference leaves one diagnostic and an arc holding a bottom;
\* and every other field declaration of the record, before or after a failing
\* one, is still lowered and inserted under its label (every declaration up
\* to an emit declaration, which is what ends a record's lowering).
C8_RecordSurvives ==
    (built.done /\ IsRecordFile) =>
        LET rec == built.st.objs[built.st.astMap[RecordAt].ref]
            ArcOf(i) == {a \in 1..Len(rec.arcs) :
                            /\ rec.arcs[a].feature = label(LabelName(RecordDecls[i].Label).name)
                            /\ Holds(rec.arcs[a].v, RecordAt \o <<i, 2>>)}
            Sourced(i) == {a \in 1..Len(rec.arcs) : Holds(rec.arcs[a].v, RecordAt \o <<i, 2>>)}
        IN  \A i \in 1..Len(RecordDecls) :
              Reached(i) =>
                /\ LabelFails(i) =>
                      /\ Cardinality(DiagsUnder(RecordAt \o <<i>>)) = 1
                      /\ \E j \in DiagsUnder(RecordAt \o <<i>>) :
                            built.st.errors[j].n = RecordAt \o <<i, 1>>
                      /\ Sourced(i) = {}
                /\ ValueFails(i) =>
                      /\ Cardinality(DiagsUnder(RecordAt \o <<i>>)) = 1
                      /\ \E a \in ArcOf(i) :
                            \/ isBottom(rec.arcs[a].v)
                            \/ rec.arcs[a].v.t = "binaryExpr"
                /\ Lowers(i) =>
                      /\ DiagsUnder(RecordAt \o <<i>>) = {}
                      /\ ArcOf(i) # {}
                /\ (RecordDecls[i].t = "Field" /\ RecordDecls[i].Label.t = "TemplateLabel") =>
                      rec.template.t # "nil"
                /\ (RecordDecls[i].t = "Field" /\ RecordDecls[i].Label.t = "Interpolation") =>
                      \E c \in 1..Len(rec.comprehensions) :
                            rec.comprehensions[c].src = RecordAt \o <<i>>

\* a field that lowers, a field with a label that does not resolve, a field
\* with a malformed interpolation: both neighbours of the bad label are there
C8_Witness ==
    /\ built.done
    /\ IsRecordFile
    /\ RecordDecls = <<PlainField("c", BadInterpolation),
                       Field(BasicLit(<<"1">>), Lit("1"), FALSE, TRUE),
                       PlainField("b", Lit("2"))>>
    /\ LET rec == built.st.objs[built.st.astMap[RecordAt].ref]
       IN  /\ Len(rec.arcs) = 2
           /\ isBottom(rec.arcs[1].v)
           /\ rec.arcs[2].v.lit = <<"2">>
           /\ Len(built.st.errors) = 2

-----------------------------------------------------------------------------
(* The disjunction-level flag *)

RECURSIVE DisjunctionsIn(_)
\* the disjunctions lowered into val, val itself and the nested ones
DisjunctionsIn(val) ==
    IF val.t = "disjunction"
    THEN {val} \cup UNION {DisjunctionsIn(val.values[i].val) : i \in 1..Len(val.values)}
    ELSE IF val.t \in {"unaryExpr", "bound"} THEN DisjunctionsIn(val.x)
    ELSE IF val.t = "binaryExpr"
    THEN DisjunctionsIn(val.left) \cup DisjunctionsIn(val.right)
    ELSE {}

AnyMarked(d) == \E i \in 1..Len(d.values) : d.values[i].mark

\* C11: every lowered disjunction has hasDefaults exactly when one of its
\* branches is marked default; a disjunction whose operands carry no * has
\* hasDefaults false, operands that are other unary expressions included.
C11_HasDefaults ==
    (built.done /\ IsDisjFile) =>
        \A d \in DisjunctionsIn(built.st.objs[1].arcs[1].v) :
            d.hasDefaults <=> AnyMarked(d)

-----------------------------------------------------------------------------
(* The scope map *)

\* mapScope gives the registered scope of every registered node, and leaves
\* the map as it is
MapScopeStable(st) ==
    \A p \in DOMAIN st.astMap :
        /\ mapScope(st, p).value = st.astMap[p]
        /\ mapScope(st, p).st = st

\* C12: one build registers each syntax node in the scope map at most once
\* with a given value: setScope's define-once check ("already defined") is
\* never reached during lowering, also when an alias whose expression holds
\* a comprehension or a pattern-label field is referenced more than once;
\* and mapScope returns the same scope for the same node on every call.
C12_DefineOnce ==
    built.done => (~built.st.panic /\ MapScopeStable(built.st))

====
